---- MODULE Spec2Model ----
(***************************************************************************)
(* Model of auto_build.py: one run of the ROS workspace auto-build script. *)
(* The run is a single sequential control flow; pc is the position of the  *)
(* interpreter in the script, cmds the external commands handed to         *)
(* subprocess.run so far, log the records handed to the logger, exitCode   *)
(* the exit status of the Python process once it has ended.                *)
(***************************************************************************)
EXTENDS Integers, Sequences, FiniteSets, TLC

\* ---------------------------------------------------------------- bounds
\* longest official-packages list drawn for ros-config.yml
MaxPkgs == 2
\* largest exit status an external command returns (0 is success)
MaxStatus == 1

PkgNames == {"a", "b"}

RECURSIVE SeqsUpTo(_, _)
SeqsUpTo(S, n) ==
    IF n = 0 THEN {<< >>}
    ELSE LET shorter == SeqsUpTo(S, n - 1)
         IN  shorter \cup {Append(s, x) : s \in {t \in shorter : Len(t) = n - 1}, x \in S}

\* ------------------------------------------------- inputs of one run
\* A word of the command line is the sequence of its characters; an ASCII
\* character is the string of length one, any other character is named by
\* its code point.
Word(s) == [i \in 1 .. Len(s) |-> SubSeq(s, i, i)]

chr(n) == "chr(" \o ToString(n) \o ")"

Words(ss) == [i \in 1 .. Len(ss) |-> Word(ss[i])]

\* command lines: no flag; -w with a value, with an empty value, without
\* its value, with an option in place of its value; the help flag alone,
\* after other words and glued to -w; an unknown flag; the value glued to
\* the flag, joined by "=", after an abbreviated flag; -w twice; an
\* ambiguous abbreviation; a stray word; values of -w that look like
\* options: a negative number that ends in a newline, one written
\* with another script's digits, one followed by a letter
ArgvSet ==
    {Words(ss) : ss \in
        { << >>, <<"-w", "ws">>, <<"-w", "">>,
          <<"-w">>, <<"-h">>, <<"--bogus">>, <<"-w", "-h">>, <<"-w", "ws", "-h">>,
          <<"--bogus", "-h">>, <<"-wws">>, <<"--workspace=ws">>, <<"--work", "ws">>,
          <<"-w", "ws", "-w", "ws2">>, <<"--=x">>, <<"-hw", "ws">>, <<"ws">>,
          <<"-w", "-1\n">>, <<"-w", "-1x">> }}
    \cup { <<Word("-w"), <<"-", chr(1635)>>>>, <<Word("-w"), <<"-", chr(178)>>>> }

\* what ros-config.yml is: a path the user may not look up (a directory
\* on the way is not searchable); absent; present but open() fails;
\* present but not YAML; YAML that is no mapping (None, a list, a scalar);
\* a mapping whose official-packages value is null; a mapping without the
\* key; a mapping whose official-packages value is a list of strings; a
\* mapping whose official-packages value is a non-empty string (pkgs holds
\* its characters)
ConfigKinds == {"denied", "missing", "unreadable", "malformed", "notmapping",
                "nullvalue", "nokey", "list", "text"}

ConfigSet ==
    {[kind |-> k, pkgs |-> << >>] : k \in ConfigKinds \ {"list", "text"}}
    \cup {[kind |-> "list", pkgs |-> p] : p \in SeqsUpTo(PkgNames, MaxPkgs)}
    \cup {[kind |-> "text", pkgs |-> Word("pkg")]}

\* prepare.sh: absent, or present with or without an execute bit, owned by
\* the user (chmod allowed) or not; denied: the user may not search the
\* workspace directory, with prepare.sh inside or not
PrepareSet ==
    {[exists |-> FALSE, executable |-> FALSE, owned |-> FALSE, denied |-> d] : d \in BOOLEAN}
    \cup {[exists |-> TRUE, executable |-> x, owned |-> o, denied |-> FALSE] :
              x \in BOOLEAN, o \in BOOLEAN}
    \cup {[exists |-> TRUE, executable |-> TRUE, owned |-> FALSE, denied |-> TRUE]}

\* .env: present, absent, or a path the user may not look up
EnvSet == {"found", "missing", "denied"}

VARIABLES
    yamlInstalled,      \* PyYAML importable
    argv,               \* command line after the script name
    prepare,            \* prepare.sh in the workspace directory
    envFile,            \* .env in the workspace directory
    config,             \* ros-config.yml in the workspace directory
    pc,                 \* position in the script
    workspace_dir,      \* ROSWorkspaceManager.workspace_dir
    official_packages,  \* local of setup_workspace
    cmds,               \* calls of subprocess.run, in order
    trace,              \* start/end events of the steps, in order
    log,                \* logger records, in order
    setupResult,        \* value setup_workspace returned
    installResult,      \* value install_official_packages returned
    buildResult,        \* value build_ws returned
    exitCode            \* exit status of the process, -1 while it runs

inputs == <<yamlInstalled, argv, envFile, config>>
vars == <<yamlInstalled, argv, prepare, envFile, config, pc, workspace_dir,
          official_packages, cmds, trace, log, setupResult, installResult,
          buildResult, exitCode>>

Ev(kind, what) == [ev |-> kind, what |-> what]

\* Path.cwd(), and cwd=None of subprocess.run (no cwd argument)
Cwd == <<"Path.cwd()">>

NoCwd == <<"None">>

\* sys.exit(code) / falling off the end of the script
Exit(code) == /\ pc' = "exited"
              /\ exitCode' = code

\* argv of the three commands that source prepare.sh
RosdepUpdateCmd == <<"bash", "-c", "source prepare.sh && rosdep update">>
RosdepInstallCmd ==
    <<"bash", "-c", "source prepare.sh && rosdep install --from-paths src --ignore-src -r -y">>
ColconBuildCmd == <<"bash", "-c", "source prepare.sh && colcon build --symlink-install">>

AptUpdateCmd == <<"sudo", "apt", "update">>

\* cmd = ["sudo", "apt", "install", "-y"] + official_packages
AptInstallCmdDropLast(pkgs) ==
    <<"sudo", "apt", "install", "-y">> \o SubSeq(pkgs, 1, Len(pkgs) - 1)
AptInstallCmd(pkgs) == <<"sudo", "apt", "install", "-y">> \o pkgs

\* subprocess.run(cmd, check=True, cwd=cwd) up to the point where the child
\* runs: the child is spawned and the caller blocks at the position named
\* after the command, or the program cannot be started and OSError is
\* raised (no CalledProcessError, so it reaches main's `except Exception`).
\* cs and tr are cmds and trace as the statements before the call left them.
subprocess_run(cs, tr, cmd, cwd, what) ==
    \E spawned \in BOOLEAN :
        /\ cmds' = Append(cs, [argv |-> cmd, cwd |-> cwd, what |-> what,
                               state |-> IF spawned THEN "running" ELSE "oserror",
                               returncode |-> -1])
        /\ trace' = Append(tr, Ev(IF spawned THEN "start" ELSE "oserror", what))
        /\ pc' = IF spawned THEN what ELSE "except_exception"

\* check=True without effect: no status raises
CalledProcessErrorNever(rc) == FALSE
\* check=True: subprocess.run raises CalledProcessError on a nonzero status
CalledProcessError(rc) == rc # 0

\* the child of the last subprocess.run ended with status rc
Returned(rc) ==
    [cmds EXCEPT ![Len(cmds)] = [@ EXCEPT !.state = "exited", !.returncode = rc]]

Statuses == 0 .. MaxStatus

Init ==
    /\ yamlInstalled \in BOOLEAN
    /\ argv \in ArgvSet
    /\ prepare \in PrepareSet
    /\ envFile \in EnvSet
    /\ config \in ConfigSet
    /\ pc = "import"
    /\ workspace_dir = << >>
    /\ official_packages = << >>
    /\ cmds = << >>
    /\ trace = << >>
    /\ log = << >>
    /\ setupResult = "unset"
    /\ installResult = "unset"
    /\ buildResult = "unset"
    /\ exitCode = -1

\* lines 14-19: import yaml, or print and sys.exit(1)
ImportYaml ==
    /\ pc = "import"
    /\ IF yamlInstalled
         THEN pc' = "parse_args" /\ UNCHANGED exitCode
         ELSE Exit(1)
    /\ UNCHANGED <<inputs, prepare, workspace_dir, official_packages, cmds, trace,
                   log, setupResult, installResult, buildResult>>

\* ---------------------------------------------------------------- argparse
\* lines 155-158: ArgumentParser with `-h/--help` (added by default, takes
\* no argument) and `--workspace/-w` (takes one argument), parse_args on
\* the words after the script name.
OptionStrings == {Word("-h"), Word("--help"), Word("--workspace"), Word("-w")}

ActionOf(o) == IF o \in {Word("-h"), Word("--help")} THEN "help" ELSE "workspace"

StartsWith(s, p) == Len(p) <= Len(s) /\ SubSeq(s, 1, Len(p)) = p

\* position of the first "=" of w, 0 when there is none
EqPos(w) ==
    IF \E i \in 1 .. Len(w) : w[i] = "="
      THEN CHOOSE i \in 1 .. Len(w) : w[i] = "=" /\ \A j \in 1 .. (i - 1) : w[j] # "="
      ELSE 0

\* the code points at which the blocks of ten decimal digits of the other
\* scripts begin (Unicode 14, category Nd)
DigitBlocks ==
    {
     1632, 1776, 1984, 2406, 2534, 2662, 2790, 2918, 3046, 3174, 3302,
     3430, 3558, 3664, 3792, 3872, 4160, 4240, 6112, 6160, 6470, 6608,
     6784, 6800, 6992, 7088, 7232, 7248, 42528, 43216, 43264, 43472, 43504,
     43600, 44016, 65296, 66720, 68912, 69734, 69872, 69942, 70096, 70384,
     70736, 70864, 71248, 71360, 71472, 71904, 72016, 72784, 73040, 73120,
     92768, 92864, 93008, 123200, 123632, 125264, 130032 }

\* the mathematical digits, five sets of ten in one run
MathDigits == 120782 .. 120831

\* \d of a str pattern: every character that is a decimal digit
Digits ==
    {"0", "1", "2", "3", "4", "5", "6", "7", "8", "9"}
    \cup {chr(b + i) : b \in DigitBlocks, i \in 0 .. 9}
    \cup {chr(n) : n \in MathDigits}

\* `$` matches at the end of the word and before a newline that ends it
BeforeDollar(w) ==
    IF Len(w) > 0 /\ w[Len(w)] = "\n" THEN SubSeq(w, 1, Len(w) - 1) ELSE w

\* _negative_number_matcher: '^-\d+$|^-\d*\.\d+$'
NegativeNumber(w) ==
    LET v == BeforeDollar(w)
    IN  /\ Len(v) >= 2
        /\ v[1] = "-"
        /\ \/ \A i \in 2 .. Len(v) : v[i] \in Digits
           \/ \E d \in 2 .. (Len(v) - 1) :
                 /\ v[d] = "."
                 /\ \A i \in (2 .. Len(v)) \ {d} : v[i] \in Digits

\* _get_option_tuples: the option strings w abbreviates (two dashes: the
\* long options that begin with the part before "="; one dash: the short
\* option equal to the first two characters, the rest being its argument)
OptionTuples(w) ==
    IF w[2] = "-"
      THEN LET e == EqPos(w)
               prefix == IF e > 0 THEN SubSeq(w, 1, e - 1) ELSE w
           IN  {[option |-> o, hasExplicit |-> e > 0,
                 explicit |-> IF e > 0 THEN SubSeq(w, e + 1, Len(w)) ELSE << >>] :
                    o \in {p \in OptionStrings : StartsWith(p, prefix)}}
      ELSE {[option |-> o, hasExplicit |-> TRUE, explicit |-> SubSeq(w, 3, Len(w))] :
               o \in {p \in OptionStrings : p = SubSeq(w, 1, 2)}}
           \cup {[option |-> o, hasExplicit |-> FALSE, explicit |-> << >>] :
               o \in {p \in OptionStrings : p # SubSeq(w, 1, 2) /\ StartsWith(p, w)}}

Positional == [kind |-> "A", option |-> << >>, hasExplicit |-> FALSE, explicit |-> << >>]

\* _parse_optional: a word is an argument ("A"), an option ("O", with the
\* option string it stands for, << >> for an option the parser does not
\* know, and the argument glued to it), or ambiguous
ParseOptional(w) ==
    IF w = << >> THEN Positional
    ELSE IF w[1] # "-" THEN Positional
    ELSE IF w \in OptionStrings
      THEN [kind |-> "O", option |-> w, hasExplicit |-> FALSE, explicit |-> << >>]
    ELSE IF Len(w) = 1 THEN Positional
    ELSE IF EqPos(w) > 0 /\ SubSeq(w, 1, EqPos(w) - 1) \in OptionStrings
      THEN [kind |-> "O", option |-> SubSeq(w, 1, EqPos(w) - 1), hasExplicit |-> TRUE,
            explicit |-> SubSeq(w, EqPos(w) + 1, Len(w))]
    ELSE IF Cardinality(OptionTuples(w)) > 1
      THEN [kind |-> "ambiguous", option |-> << >>, hasExplicit |-> FALSE, explicit |-> << >>]
    ELSE IF Cardinality(OptionTuples(w)) = 1
      THEN LET t == CHOOSE t \in OptionTuples(w) : TRUE
           IN  [kind |-> "O", option |-> t.option, hasExplicit |-> t.hasExplicit,
                explicit |-> t.explicit]
    ELSE IF NegativeNumber(w) THEN Positional
    ELSE IF \E i \in 1 .. Len(w) : w[i] = " " THEN Positional
    ELSE [kind |-> "O", option |-> << >>, hasExplicit |-> FALSE, explicit |-> << >>]

\* index of the first "--" of a, Len(a) + 1 when there is none
DoubleDash(a) ==
    IF \E i \in DOMAIN a : a[i] = Word("--")
      THEN CHOOSE i \in DOMAIN a : a[i] = Word("--") /\ \A j \in 1 .. (i - 1) : a[j] # Word("--")
      ELSE Len(a) + 1

\* arg_strings_pattern: "-" for the first "--", "A" for every word after it
Pattern(a, i) ==
    IF i > Len(a) THEN "end"
    ELSE IF i = DoubleDash(a) THEN "-"
    ELSE IF i > DoubleDash(a) THEN "A"
    ELSE ParseOptional(a[i]).kind

UsageError == [ok |-> FALSE, exit |-> 2, workspace |-> << >>]

HelpExit == [ok |-> FALSE, exit |-> 0, workspace |-> << >>]

\* consume_optional for the option at a[i]: the loop over the options
\* glued into one word (-hw is -h -w).  help: the word holds -h; value: the
\* argument of the last -w of the word; stop: the index after what the
\* word consumed.  An error is raised before any action of the word is
\* taken.
RECURSIVE ConsumeOptional(_, _, _, _, _, _)
ConsumeOptional(a, i, option, hasExplicit, explicit, help) ==
    IF ActionOf(option) = "help"
      THEN IF ~hasExplicit
             THEN [error |-> FALSE, help |-> TRUE, value |-> << >>, stop |-> i + 1]
           ELSE IF option[2] # "-" /\ explicit # << >>
             THEN LET o == <<"-", explicit[1]>>
                      rest == SubSeq(explicit, 2, Len(explicit))
                  IN  IF o \in OptionStrings
                        THEN ConsumeOptional(a, i, o, rest # << >>, rest, TRUE)
                        ELSE [error |-> TRUE, help |-> help, value |-> << >>, stop |-> i + 1]
           ELSE [error |-> TRUE, help |-> help, value |-> << >>, stop |-> i + 1]
      ELSE IF hasExplicit
             THEN [error |-> FALSE, help |-> help,
                   value |-> IF explicit = Word("--") THEN << >> ELSE explicit, stop |-> i + 1]
           ELSE IF Pattern(a, i + 1) = "A"
             THEN [error |-> FALSE, help |-> help, value |-> a[i + 1], stop |-> i + 2]
           ELSE [error |-> TRUE, help |-> help, value |-> << >>, stop |-> i + 1]

\* the loop of _parse_known_args from word i on: ws is args.workspace so
\* far (<< >> for None), extras whether a word was left over.  The help
\* action exits 0 when it is taken; left-over words are an error at the end.
RECURSIVE ParseFrom(_, _, _, _)
ParseFrom(a, i, ws, extras) ==
    IF i > Len(a)
      THEN IF extras THEN UsageError ELSE [ok |-> TRUE, exit |-> 0, workspace |-> ws]
    ELSE IF Pattern(a, i) # "O" THEN ParseFrom(a, i + 1, ws, TRUE)
    ELSE LET p == ParseOptional(a[i])
         IN  IF p.option = << >> THEN ParseFrom(a, i + 1, ws, TRUE)
             ELSE LET c == ConsumeOptional(a, i, p.option, p.hasExplicit, p.explicit, FALSE)
                  IN  IF c.error THEN UsageError
                      ELSE IF c.help THEN HelpExit
                      ELSE ParseFrom(a, c.stop, c.value, extras)

\* parser.parse_args(): every word before "--" is classified first (an
\* ambiguous abbreviation is an error there), then the words are consumed.
\* ok: args.workspace was produced (<< >> when it is None or falsy);
\* otherwise the status argparse exits with (0 after the help, 2 after a
\* usage error).
ParsedWorkspace(a) ==
    IF \E i \in 1 .. (DoubleDash(a) - 1) : i <= Len(a) /\ ParseOptional(a[i]).kind = "ambiguous"
      THEN UsageError
      ELSE ParseFrom(a, 1, << >>, FALSE)

\* line 158: args = parser.parse_args()
ParseArgs ==
    /\ pc = "parse_args"
    /\ LET p == ParsedWorkspace(argv)
       IN  IF p.ok
             THEN /\ pc' = "construct"
                  /\ workspace_dir' = p.workspace
                  /\ UNCHANGED exitCode
             ELSE /\ Exit(p.exit)
                  /\ UNCHANGED workspace_dir
    /\ UNCHANGED <<inputs, prepare, official_packages, cmds, trace, log,
                   setupResult, installResult, buildResult>>

\* lines 32-36 and 161: Path(workspace_dir) if workspace_dir else Path.cwd().
\* Path.cwd() raises FileNotFoundError when the working directory has been
\* removed; that is inside the try block of main and reaches
\* `except Exception`.
Construct ==
    /\ pc = "construct"
    /\ IF workspace_dir # << >>
         THEN /\ pc' = "setup_workspace"
              /\ UNCHANGED workspace_dir
         ELSE \E removed \in BOOLEAN :
                 IF removed
                   THEN /\ pc' = "except_exception"
                        /\ UNCHANGED workspace_dir
                   ELSE /\ pc' = "setup_workspace"
                        /\ workspace_dir' = Cwd
    /\ UNCHANGED <<inputs, prepare, official_packages, cmds, trace, log,
                   setupResult, installResult, buildResult, exitCode>>

\* lines 48-55: the .env check only logs
EnvFileLogs(env) ==
    IF env = "found"
      THEN <<[level |-> "INFO", msg |-> "Found .env file for environment configuration"]>>
      ELSE <<[level |-> "WARNING", msg |-> ".env file not found!"],
             [level |-> "INFO", msg |-> "Please copy .templates/example.env to .env and configure it."],
             [level |-> "INFO", msg |-> "Using default environment from prepare.sh..."]>>

ChmodLogs == <<[level |-> "INFO", msg |-> "Making prepare.sh executable..."]>>

\* lines 44-56: check_environment once prepare.sh is known to exist.
\* chmod raises PermissionError on a file of another owner, and
\* env_file.exists() raises it when the path may not be looked up.
CheckExecutableAndEnv(prep, env) ==
    IF ~prep.executable /\ ~prep.owned
      THEN [result |-> "raise", prep |-> prep, logs |-> ChmodLogs]
      ELSE LET mode == IF prep.executable THEN prep ELSE [prep EXCEPT !.executable = TRUE]
               made == IF prep.executable THEN << >> ELSE ChmodLogs
           IN  IF env = "denied"
                 THEN [result |-> "raise", prep |-> mode, logs |-> made]
                 ELSE [result |-> "True", prep |-> mode, logs |-> made \o EnvFileLogs(env)]

\* check_environment with the existence test of prepare.sh left out
check_environment_no_exists_test(prep, env) ==
    IF prep.denied
      THEN [result |-> "raise", prep |-> prep, logs |-> << >>]
    ELSE IF ~prep.exists
      THEN [result |-> "True", prep |-> prep, logs |-> EnvFileLogs(env)]
    ELSE CheckExecutableAndEnv(prep, env)

\* lines 38-57: check_environment as a function of the workspace files:
\* the value returned ("raise" when a statement raises PermissionError),
\* prepare.sh afterwards, and the records logged.  prepare_script.exists()
\* raises when the workspace directory may not be searched.
check_environment(prep, env) ==
    IF prep.denied
      THEN [result |-> "raise", prep |-> prep, logs |-> << >>]
    ELSE IF ~prep.exists
      THEN [result |-> "False", prep |-> prep,
            logs |-> <<[level |-> "ERROR",
                        msg |-> "prepare.sh not found! This script is required for environment setup."]>>]
    ELSE CheckExecutableAndEnv(prep, env)

\* lines 134-138: the records of setup_workspace up to the end of the
\* environment check, r being what check_environment does
SetupWorkspaceLogs(r) ==
    <<[level |-> "INFO", msg |-> "Setting up ROS workspace..."]>>
    \o r.logs
    \o (IF r.result = "False"
          THEN <<[level |-> "ERROR", msg |-> "Environment check failed!"]>>
          ELSE << >>)

\* lines 132-139: setup_workspace up to and including the environment check
SetupWorkspace ==
    /\ pc = "setup_workspace"
    /\ LET r == check_environment(prepare, envFile)
       IN  /\ prepare' = r.prep
           /\ log' = log \o SetupWorkspaceLogs(r)
           /\ trace' = trace \o <<Ev("start", "check_environment")>>
                             \o (IF r.result = "raise" THEN << >>
                                 ELSE <<Ev("end", "check_environment")>>)
           /\ CASE r.result = "False" ->
                     /\ setupResult' = "False"
                     /\ pc' = "main_return"
                [] r.result = "True" ->
                     /\ pc' = "read_packages_config"
                     /\ UNCHANGED setupResult
                [] r.result = "raise" ->
                     /\ pc' = "except_exception"
                     /\ UNCHANGED setupResult
    /\ UNCHANGED <<inputs, workspace_dir, official_packages, cmds,
                   installResult, buildResult, exitCode>>

\* lines 61-78: read_packages_config as a function of ros-config.yml:
\* how it ends (sys.exit(1), a return, or an exception it does not catch),
\* the value returned and the records logged.
\* packages_file.exists() is outside the try block and raises
\* PermissionError when the path may not be looked up;
\* config.get("official-packages", []) gives [] when the key is absent;
\* a non-mapping has no .get and a null value has no len(), both land in
\* `except Exception`; a string has a len() and is returned as it is.
read_packages_config(cfg) ==
    CASE cfg.kind = "denied" ->
           [outcome |-> "raise", packages |-> << >>, logs |-> << >>]
      [] cfg.kind = "missing" ->
           [outcome |-> "exit", packages |-> << >>,
            logs |-> <<[level |-> "ERROR", msg |-> "Error: ros-config.yml not found!"]>>]
      [] cfg.kind = "malformed" ->
           [outcome |-> "exit", packages |-> << >>,
            logs |-> <<[level |-> "ERROR", msg |-> "Error parsing ros-config.yml"]>>]
      [] cfg.kind \in {"unreadable", "notmapping", "nullvalue"} ->
           [outcome |-> "exit", packages |-> << >>,
            logs |-> <<[level |-> "ERROR", msg |-> "Error reading config file"]>>]
      [] cfg.kind = "nokey" ->
           [outcome |-> "return", packages |-> << >>,
            logs |-> <<[level |-> "INFO", msg |-> "Loaded official packages from config"]>>]
      [] cfg.kind \in {"list", "text"} ->
           [outcome |-> "return", packages |-> cfg.pkgs,
            logs |-> <<[level |-> "INFO", msg |-> "Loaded official packages from config"]>>]

\* lines 62, 71, 74, 77: the records read_packages_config logs
ReadPackagesConfigLogs(cfg) == read_packages_config(cfg).logs

\* line 142: official_packages = self.read_packages_config().  SystemExit
\* is no Exception, so neither handler of main catches it: the process
\* ends with the status given to sys.exit.
ReadPackagesConfig ==
    /\ pc = "read_packages_config"
    /\ LET r == read_packages_config(config)
       IN  /\ log' = log \o ReadPackagesConfigLogs(config)
           /\ CASE r.outcome = "exit" ->
                     /\ Exit(1)
                     /\ trace' = Append(trace, Ev("start", "read_packages_config"))
                     /\ UNCHANGED official_packages
                [] r.outcome = "raise" ->
                     /\ pc' = "except_exception"
                     /\ trace' = Append(trace, Ev("start", "read_packages_config"))
                     /\ UNCHANGED <<official_packages, exitCode>>
                [] r.outcome = "return" ->
                     /\ pc' = "install_official_packages"
                     /\ official_packages' = r.packages
                     /\ trace' = trace \o <<Ev("start", "read_packages_config"),
                                            Ev("end", "read_packages_config")>>
                     /\ UNCHANGED exitCode
    /\ UNCHANGED <<inputs, prepare, workspace_dir, cmds, setupResult,
                   installResult, buildResult>>

\* the emptiness test left out
NoPackagesNever(pkgs) == FALSE
\* line 114: `not official_packages` is true of the empty list
NoPackages(pkgs) == pkgs = << >>

\* lines 115 and 118: the record install_official_packages logs first
InstallEntryLogs(pkgs) ==
    IF NoPackages(pkgs)
      THEN <<[level |-> "INFO", msg |-> "No official packages to install"]>>
      ELSE <<[level |-> "INFO", msg |-> "Installing official packages..."]>>

\* lines 112-121: install_official_packages up to the first subprocess.run
InstallOfficialPackages ==
    /\ pc = "install_official_packages"
    /\ log' = log \o InstallEntryLogs(official_packages)
    /\ IF NoPackages(official_packages)
         THEN /\ installResult' = "True"
              /\ pc' = "build_ws"
              /\ trace' = trace \o <<Ev("start", "install_official_packages"),
                                     Ev("end", "install_official_packages")>>
              /\ UNCHANGED cmds
         ELSE /\ subprocess_run(cmds, Append(trace, Ev("start", "install_official_packages")),
                                AptUpdateCmd, NoCwd, "apt_update")
              /\ UNCHANGED installResult
    /\ UNCHANGED <<inputs, prepare, workspace_dir, official_packages,
                   setupResult, buildResult, exitCode>>

\* line 129
InstallFailedLogs == <<[level |-> "ERROR", msg |-> "Failed to install official packages"]>>

\* a failed installation is tried again
InstallFailedRetries(what, rc) ==
    /\ cmds' = Returned(rc)
    /\ log' = log \o InstallFailedLogs
    /\ installResult' = "False"
    /\ pc' = IF Len(cmds) < 4 THEN "install_official_packages" ELSE "build_ws"
    /\ trace' = trace \o <<Ev("end", what), Ev("end", "install_official_packages")>>

\* lines 128-130 and 145: except CalledProcessError in
\* install_official_packages; setup_workspace drops the False returned
InstallFailed(what, rc) ==
    /\ cmds' = Returned(rc)
    /\ log' = log \o InstallFailedLogs
    /\ installResult' = "False"
    /\ pc' = "build_ws"
    /\ trace' = trace \o <<Ev("end", what), Ev("end", "install_official_packages")>>

\* lines 121-129: what is logged once apt update ended with status rc
AptUpdateLogs(rc) == IF CalledProcessError(rc) THEN InstallFailedLogs ELSE << >>

\* line 124: a list and a string cannot be added; the TypeError is no
\* CalledProcessError and reaches `except Exception` of main
CmdRaisesTypeError == config.kind = "text"

\* lines 121-125: apt update ends; on status zero apt install is run with
\* the package list appended
AptUpdateReturns ==
    /\ pc = "apt_update"
    /\ \E rc \in Statuses :
          IF CalledProcessError(rc)
            THEN InstallFailed("apt_update", rc)
          ELSE IF CmdRaisesTypeError
            THEN /\ cmds' = Returned(rc)
                 /\ trace' = Append(trace, Ev("end", "apt_update"))
                 /\ pc' = "except_exception"
                 /\ UNCHANGED <<log, installResult>>
          ELSE /\ subprocess_run(Returned(rc), Append(trace, Ev("end", "apt_update")),
                                 AptInstallCmd(official_packages), NoCwd, "apt_install")
               /\ UNCHANGED <<log, installResult>>
    /\ UNCHANGED <<inputs, prepare, workspace_dir, official_packages,
                   setupResult, buildResult, exitCode>>

\* lines 125-129: what is logged once apt install ended with status rc
AptInstallLogs(rc) ==
    IF CalledProcessError(rc)
      THEN InstallFailedLogs
      ELSE <<[level |-> "INFO", msg |-> "Official packages installed successfully"]>>

\* lines 125-130: apt install ends
AptInstallReturns ==
    /\ pc = "apt_install"
    /\ \E rc \in Statuses :
          IF CalledProcessError(rc)
            THEN InstallFailed("apt_install", rc)
            ELSE /\ cmds' = Returned(rc)
                 /\ log' = log \o AptInstallLogs(rc)
                 /\ installResult' = "True"
                 /\ pc' = "build_ws"
                 /\ trace' = trace \o <<Ev("end", "apt_install"),
                                        Ev("end", "install_official_packages")>>
    /\ UNCHANGED <<inputs, prepare, workspace_dir, official_packages,
                   setupResult, buildResult, exitCode>>

\* line 82
BuildWsEntryLogs == <<[level |-> "INFO", msg |-> "Installing workspace dependencies..."]>>

\* lines 80-88: build_ws up to the first subprocess.run
BuildWs ==
    /\ pc = "build_ws"
    /\ log' = log \o BuildWsEntryLogs
    /\ subprocess_run(cmds, Append(trace, Ev("start", "build_ws")),
                      RosdepUpdateCmd, workspace_dir, "rosdep_update")
    /\ UNCHANGED <<inputs, prepare, workspace_dir, official_packages,
                   setupResult, installResult, buildResult, exitCode>>

\* lines 85-99: what is logged once rosdep update ended with status rc
RosdepUpdateLogs(rc) ==
    IF CalledProcessError(rc)
      THEN <<[level |-> "WARNING", msg |-> "Failed to install some dependencies"],
             [level |-> "INFO", msg |-> "Building ROS workspace..."]>>
      ELSE << >>

\* lines 91-99: what is logged once rosdep install ended with status rc
RosdepInstallLogs(rc) ==
    <<IF CalledProcessError(rc)
        THEN [level |-> "WARNING", msg |-> "Failed to install some dependencies"]
        ELSE [level |-> "INFO", msg |-> "Dependencies installed successfully"],
      [level |-> "INFO", msg |-> "Building ROS workspace..."]>>

\* lines 96-105: the dependency commands are over (with or without the
\* warning of the except clause); colcon build is run
StartBuild(what, rc, records) ==
    /\ log' = log \o records
    /\ subprocess_run(Returned(rc), Append(trace, Ev("end", what)),
                      ColconBuildCmd, workspace_dir, "colcon_build")

\* lines 85-97: rosdep update ends
RosdepUpdateReturns ==
    /\ pc = "rosdep_update"
    /\ \E rc \in Statuses :
          IF CalledProcessError(rc)
            THEN StartBuild("rosdep_update", rc, RosdepUpdateLogs(rc))
            ELSE /\ subprocess_run(Returned(rc), Append(trace, Ev("end", "rosdep_update")),
                                   RosdepInstallCmd, workspace_dir, "rosdep_install")
                 /\ UNCHANGED log
    /\ UNCHANGED <<inputs, prepare, workspace_dir, official_packages,
                   setupResult, installResult, buildResult, exitCode>>

\* lines 91-97: rosdep install ends
RosdepInstallReturns ==
    /\ pc = "rosdep_install"
    /\ \E rc \in Statuses : StartBuild("rosdep_install", rc, RosdepInstallLogs(rc))
    /\ UNCHANGED <<inputs, prepare, workspace_dir, official_packages,
                   setupResult, installResult, buildResult, exitCode>>

\* lines 150-152: the closing records of setup_workspace
ClosingLogs ==
    <<[level |-> "INFO", msg |-> "Workspace setup completed successfully!"],
      [level |-> "INFO", msg |-> "Custom packages are managed via git submodules"],
      [level |-> "INFO", msg |-> "To use the workspace, run: source prepare.sh"]>>

\* lines 106 and 109: what build_ws logs once colcon build ended
BuildEndLogs(rc) ==
    <<IF CalledProcessError(rc)
        THEN [level |-> "ERROR", msg |-> "Failed to build workspace"]
        ELSE [level |-> "INFO", msg |-> "Workspace built successfully"]>>

\* lines 106-109 and 150-152: what is logged once colcon build ended
ColconBuildLogs(rc) == BuildEndLogs(rc) \o ClosingLogs

\* lines 107 and 110: the value build_ws returns
BuildWsResult(rc) == IF CalledProcessError(rc) THEN "False" ELSE "True"

\* lines 102-110 and 148-152: colcon build ends and build_ws returns True
\* or False; setup_workspace drops that value, logs the closing records
\* and falls off its end, which returns None.
ColconBuildReturns ==
    /\ pc = "colcon_build"
    /\ \E rc \in Statuses :
          /\ cmds' = Returned(rc)
          /\ log' = log \o ColconBuildLogs(rc)
          /\ buildResult' = BuildWsResult(rc)
    /\ trace' = trace \o <<Ev("end", "colcon_build"), Ev("end", "build_ws")>>
    /\ setupResult' = "None"
    /\ pc' = "main_return"
    /\ UNCHANGED <<inputs, prepare, workspace_dir, official_packages,
                   installResult, exitCode>>

\* line 162 and the end of the script: main drops the value of
\* setup_workspace and returns; the interpreter exits with status 0
MainReturn ==
    /\ pc = "main_return"
    /\ Exit(0)
    /\ UNCHANGED <<inputs, prepare, workspace_dir, official_packages, cmds, trace,
                   log, setupResult, installResult, buildResult>>

\* line 165
CancelledLogs == <<[level |-> "INFO", msg |-> "Operation cancelled by user"]>>

\* line 168
UnexpectedLogs == <<[level |-> "ERROR", msg |-> "Unexpected error"]>>

\* lines 164-166
ExceptKeyboardInterrupt ==
    /\ pc = "except_interrupt"
    /\ log' = log \o CancelledLogs
    /\ Exit(1)
    /\ UNCHANGED <<inputs, prepare, workspace_dir, official_packages, cmds, trace,
                   setupResult, installResult, buildResult>>

\* lines 167-169
ExceptException ==
    /\ pc = "except_exception"
    /\ log' = log \o UnexpectedLogs
    /\ Exit(1)
    /\ UNCHANGED <<inputs, prepare, workspace_dir, official_packages, cmds, trace,
                   setupResult, installResult, buildResult>>

\* ------------------------------------------------------------ Ctrl-C
\* KeyboardInterrupt is raised between any two bytecodes, so in the
\* middle of a step as well: what the step has done by then is a prefix of
\* the statements it executes.  The statements that leave a mark:
\* a record handed to the logger
Logs(records) == [i \in 1 .. Len(records) |-> [do |-> "log", record |-> records[i]]]

\* a method is entered
Begin(what) == <<[do |-> "begin", what |-> what]>>

\* a method returns without a value the model keeps
End(what) == <<[do |-> "end", what |-> what]>>

\* line 46: self.prepare_script.chmod(0o755)
Chmod == <<[do |-> "chmod"]>>

\* subprocess.run returns or raises: the child has ended with status rc
Ended(what, rc) == <<[do |-> "ended", what |-> what, rc |-> rc]>>

\* a method returns value, kept in variable
Return(what, variable, value) ==
    <<[do |-> "return", what |-> what, variable |-> variable, value |-> value]>>

\* setup_workspace returns (the trace has no event for it)
Result(variable, value) == <<[do |-> "result", variable |-> variable, value |-> value]>>

\* the variables a statement can change
Now ==
    [log |-> log, trace |-> trace, prepare |-> prepare, cmds |-> cmds,
     official_packages |-> official_packages, installResult |-> installResult,
     buildResult |-> buildResult, setupResult |-> setupResult]

\* st after statement x
Do(st, x) ==
    CASE x.do = "log" -> [st EXCEPT !.log = Append(@, x.record)]
      [] x.do = "begin" -> [st EXCEPT !.trace = Append(@, Ev("start", x.what))]
      [] x.do = "end" -> [st EXCEPT !.trace = Append(@, Ev("end", x.what))]
      [] x.do = "chmod" -> [st EXCEPT !.prepare.executable = TRUE]
      [] x.do = "ended" ->
           [st EXCEPT !.cmds[Len(st.cmds)].state = "exited",
                      !.cmds[Len(st.cmds)].returncode = x.rc,
                      !.trace = Append(@, Ev("end", x.what))]
      [] x.do = "return" ->
           [st EXCEPT ![x.variable] = x.value,
                      !.trace = Append(@, Ev("end", x.what))]
      [] x.do = "result" -> [st EXCEPT ![x.variable] = x.value]

RECURSIVE DoAll(_, _)
DoAll(st, xs) == IF xs = << >> THEN st ELSE DoAll(Do(st, Head(xs)), Tail(xs))

\* lines 134-139 and 40-57: the statements of setup_workspace up to the
\* end of the environment check; chmod comes right after its record
SetupWorkspaceStatements ==
    LET r == check_environment(prepare, envFile)
    IN  Logs(SubSeq(SetupWorkspaceLogs(r), 1, 1))
        \o Begin("check_environment")
        \o (IF r.prep # prepare
              THEN Logs(SubSeq(r.logs, 1, 1)) \o Chmod \o Logs(SubSeq(r.logs, 2, Len(r.logs)))
              ELSE Logs(r.logs))
        \o (IF r.result = "raise" THEN << >> ELSE End("check_environment"))
        \o (IF r.result = "False"
              THEN Logs(SubSeq(SetupWorkspaceLogs(r), Len(r.logs) + 2, Len(r.logs) + 2))
                   \o Result("setupResult", "False")
              ELSE << >>)

\* the statements of the step at pc, in the order of the code, up to the
\* next subprocess.run if it ends in one; rc is the status of the child
\* the step waited for
Statements(rc) ==
    CASE pc = "setup_workspace" -> SetupWorkspaceStatements
      [] pc = "read_packages_config" ->
           Begin("read_packages_config")
           \o Logs(ReadPackagesConfigLogs(config))
           \o (IF read_packages_config(config).outcome # "return" THEN << >>
               ELSE Return("read_packages_config", "official_packages",
                           read_packages_config(config).packages))
      [] pc = "install_official_packages" ->
           Begin("install_official_packages")
           \o Logs(InstallEntryLogs(official_packages))
           \o (IF NoPackages(official_packages)
                 THEN Return("install_official_packages", "installResult", "True")
                 ELSE << >>)
      [] pc = "apt_update" ->
           Ended("apt_update", rc)
           \o (IF CalledProcessError(rc)
                 THEN Logs(AptUpdateLogs(rc))
                      \o Return("install_official_packages", "installResult", "False")
                 ELSE << >>)
      [] pc = "apt_install" ->
           Ended("apt_install", rc)
           \o Logs(AptInstallLogs(rc))
           \o Return("install_official_packages", "installResult",
                     IF CalledProcessError(rc) THEN "False" ELSE "True")
      [] pc = "build_ws" -> Begin("build_ws") \o Logs(BuildWsEntryLogs)
      [] pc = "rosdep_update" -> Ended("rosdep_update", rc) \o Logs(RosdepUpdateLogs(rc))
      [] pc = "rosdep_install" -> Ended("rosdep_install", rc) \o Logs(RosdepInstallLogs(rc))
      [] pc = "colcon_build" ->
           Ended("colcon_build", rc)
           \o Logs(BuildEndLogs(rc))
           \o Return("build_ws", "buildResult", BuildWsResult(rc))
           \o Logs(ClosingLogs)
           \o Result("setupResult", "None")
      [] pc = "except_interrupt" -> Logs(CancelledLogs)
      [] pc = "except_exception" -> Logs(UnexpectedLogs)
      [] OTHER -> << >>

\* positions inside the try block of main (lines 160-162)
InTry == {"construct", "setup_workspace", "read_packages_config",
          "install_official_packages", "apt_update", "apt_install", "build_ws",
          "rosdep_update", "rosdep_install", "colcon_build"}

\* positions of main outside its try block: the import and argparse before
\* it, the return after it, and the bodies of its two handlers
OutsideTry == {"import", "parse_args", "main_return", "except_interrupt",
               "except_exception"}

\* positions at which the script waits for a child process
Waiting == {"apt_update", "apt_install", "rosdep_update", "rosdep_install",
            "colcon_build"}

\* the states in which a KeyboardInterrupt can find the step at pc: after
\* any number of its statements; while it waits for a child the child is
\* interrupted with it, or the child has ended with some status and any
\* number of the statements that follow have run
InterruptPoints ==
    IF pc \in Waiting
      THEN {[Now EXCEPT !.cmds[Len(cmds)].state = "interrupted"]}
           \cup UNION {{DoAll(Now, SubSeq(Statements(rc), 1, k)) :
                           k \in 1 .. Len(Statements(rc))} : rc \in Statuses}
      ELSE {DoAll(Now, SubSeq(Statements(0), 1, k)) : k \in 0 .. Len(Statements(0))}

\* Ctrl-C while the try block of main runs: the KeyboardInterrupt passes
\* every handler below main (none catches BaseException) and reaches
\* `except KeyboardInterrupt` of main
Interrupt ==
    /\ pc \in InTry
    /\ \E s \in InterruptPoints :
          /\ log' = s.log
          /\ trace' = Append(s.trace, Ev("interrupt", pc))
          /\ prepare' = s.prepare
          /\ cmds' = s.cmds
          /\ official_packages' = s.official_packages
          /\ installResult' = s.installResult
          /\ buildResult' = s.buildResult
          /\ setupResult' = s.setupResult
    /\ pc' = "except_interrupt"
    /\ UNCHANGED <<inputs, workspace_dir, exitCode>>

\* Ctrl-C outside the try block: nothing catches the KeyboardInterrupt; the
\* interpreter prints the traceback and ends by SIGINT (status -2 as
\* subprocess reports it, 130 in a shell)
InterruptUncaught ==
    /\ pc \in OutsideTry
    /\ \E s \in InterruptPoints : log' = s.log
    /\ Exit(-2)
    /\ trace' = Append(trace, Ev("interrupt", pc))
    /\ UNCHANGED <<inputs, prepare, workspace_dir, official_packages, cmds,
                   setupResult, installResult, buildResult>>

\* every step of the script itself; the interrupts are the user's
Step ==
    \/ ImportYaml
    \/ ParseArgs
    \/ Construct
    \/ SetupWorkspace
    \/ ReadPackagesConfig
    \/ InstallOfficialPackages
    \/ AptUpdateReturns
    \/ AptInstallReturns
    \/ BuildWs
    \/ RosdepUpdateReturns
    \/ RosdepInstallReturns
    \/ ColconBuildReturns
    \/ MainReturn
    \/ ExceptKeyboardInterrupt
    \/ ExceptException

Next == Step \/ Interrupt \/ InterruptUncaught

Spec == Init /\ [][Next]_vars

\* ---------------------------------------------------- observations
Terminated == pc = "exited"

Happened(e) == \E i \in DOMAIN trace : trace[i] = e

Logged(level, msg) == \E i \in DOMAIN log : log[i] = [level |-> level, msg |-> msg]

\* setup_workspace was entered
ReachedSetup == Logged("INFO", "Setting up ROS workspace...")

\* the calls of subprocess.run for one command
Calls(what) == {i \in DOMAIN cmds : cmds[i].what = what}

Failed(i) == cmds[i].state = "exited" /\ cmds[i].returncode # 0

Succeeded(i) == cmds[i].state = "exited" /\ cmds[i].returncode = 0

Interrupted == \E i \in DOMAIN trace : trace[i].ev = "interrupt"

\* the process was ended by the SIGINT of a Ctrl-C that nothing caught
Killed == exitCode = -2

UnexpectedException == pc = "except_exception" \/ Logged("ERROR", "Unexpected error")

\* the run was cut short by Ctrl-C or by an exception no step handles
Aborted == Interrupted \/ UnexpectedException

EnvironmentPassed == Happened(Ev("end", "check_environment")) /\ prepare.exists

ConfigLoaded == Happened(Ev("end", "read_packages_config"))

ConfigErrorLogged ==
    \/ Logged("ERROR", "Error: ros-config.yml not found!")
    \/ Logged("ERROR", "Error parsing ros-config.yml")
    \/ Logged("ERROR", "Error reading config file")

ValidNonEmpty == config.kind = "list" /\ config.pkgs # << >>

ValidEmpty == config.kind = "nokey" \/ (config.kind = "list" /\ config.pkgs = << >>)

Unparsable == config.kind \in {"unreadable", "malformed", "notmapping", "nullvalue"}

\* ------------------------------------------------------------ claims

\* the fatal errors and the interruption that C1 lists
FatalRun ==
    \/ ~prepare.exists
    \/ ConfigErrorLogged
    \/ buildResult = "False"
    \/ UnexpectedException
    \/ Interrupted

\* C1: a run of the workspace setup ends with exit code 1 exactly when it
\* hit a fatal error (ros-config.yml missing or unparsable, prepare.sh
\* missing, colcon build failed, unexpected exception) or was interrupted,
\* and with exit code 0 otherwise.  (Stated of the runs that entered
\* setup_workspace and were not ended by an uncaught Ctrl-C.)
C1_ExitCodeReflectsFailure ==
    (Terminated /\ ReachedSetup /\ ~Killed) => exitCode = (IF FatalRun THEN 1 ELSE 0)

\* C2: in a workspace without ros-config.yml, whatever prepare.sh and .env
\* are, the run ends with exit code 1, an error is logged and no
\* subprocess is ever invoked.  (Stated of the runs that entered
\* setup_workspace and were not ended by an uncaught Ctrl-C.)
C2_MissingConfigExitsOne ==
    (config.kind = "missing" /\ ReachedSetup) =>
        /\ cmds = << >>
        /\ (Terminated /\ ~Killed) =>
                         /\ exitCode = 1
                         /\ Interrupted \/ \E i \in DOMAIN log : log[i].level = "ERROR"

\* C3: when colcon build exits nonzero, build_ws logs an error and
\* setup_workspace returns a failure value.  (Stated of the runs no Ctrl-C
\* cut short.)
C3_BuildFailureReported ==
    (~Interrupted /\ \E i \in Calls("colcon_build") : Failed(i)) =>
        /\ Logged("ERROR", "Failed to build workspace")
        /\ buildResult = "False"
        /\ setupResult = "False"

\* C4: when prepare.sh is missing the run aborts in the environment check:
\* setup_workspace returns False, no command is ever invoked and
\* ros-config.yml is never read.
C4_MissingPrepareAborts ==
    ~prepare.exists =>
        /\ cmds = << >>
        /\ \A i \in DOMAIN trace :
              trace[i].ev # "interrupt" => trace[i].what = "check_environment"
        /\ ~ConfigErrorLogged
        /\ ~Logged("INFO", "Loaded official packages from config")
        /\ pc \notin {"read_packages_config", "install_official_packages", "build_ws"}
        /\ (Happened(Ev("end", "check_environment")) /\ ~Interrupted) =>
              /\ setupResult = "False"
              /\ Logged("ERROR", "Environment check failed!")
              /\ pc \in {"main_return", "exited"}

C4_Witness ==
    /\ ~prepare.exists
    /\ Terminated
    /\ setupResult = "False"
    /\ config.kind = "list"

\* C5 as stated, on the runs most favourable to it (environment check
\* passed, no interruption, no unexpected exception): for a non-empty
\* package list every run invokes apt install exactly once, with the listed
\* names, after exactly one apt update.
C5_EveryRunInstallsOnce ==
    (ValidNonEmpty /\ Terminated /\ EnvironmentPassed /\ ~Aborted) =>
        /\ Cardinality(Calls("apt_install")) = 1
        /\ Cardinality(Calls("apt_update")) = 1

\* C5 (amended): for a non-empty package list apt install is invoked at
\* most once, always with exactly the listed names in their order, and only
\* directly after the single apt update invocation exited with status
\* zero; and it is invoked exactly once in every uninterrupted run whose
\* apt update exited with status zero.
C5_InstallOnceAfterSuccessfulUpdate ==
    ValidNonEmpty =>
        /\ Cardinality(Calls("apt_update")) <= 1
        /\ Cardinality(Calls("apt_install")) <= 1
        /\ \A i \in Calls("apt_update") : i = 1 /\ cmds[i].argv = AptUpdateCmd
        /\ \A i \in Calls("apt_install") :
              /\ i = 2
              /\ cmds[1].what = "apt_update" /\ Succeeded(1)
              /\ cmds[i].argv = <<"sudo", "apt", "install", "-y">> \o config.pkgs
              /\ cmds[i].cwd = NoCwd
        /\ (~Interrupted /\ \E i \in Calls("apt_update") : Succeeded(i)) =>
              Cardinality(Calls("apt_install")) = 1
        /\ (\E i \in Calls("apt_update") : Failed(i) \/ cmds[i].state = "oserror") =>
              Calls("apt_install") = {}

C5_Witness ==
    /\ config = [kind |-> "list", pkgs |-> <<"a", "b">>]
    /\ Terminated
    /\ Calls("apt_update") = {1}
    /\ Calls("apt_install") = {2}
    /\ Succeeded(2)

\* C6: for a valid config whose package list is empty or whose
\* official-packages key is absent, apt update and apt install are never
\* invoked, install_official_packages returns True, and the run goes on to
\* the build step: the first command it attempts is rosdep update, and an
\* uninterrupted run that loaded the config does attempt it.
C6_EmptyListSkipsInstaller ==
    ValidEmpty =>
        /\ Calls("apt_update") = {} /\ Calls("apt_install") = {}
        /\ installResult \in {"unset", "True"}
        /\ Happened(Ev("end", "install_official_packages")) =>
              /\ installResult = "True"
              /\ Logged("INFO", "No official packages to install")
              /\ pc = "build_ws" \/ cmds # << >> \/ Interrupted
        /\ cmds # << >> =>
              /\ cmds[1].what = "rosdep_update"
              /\ cmds[1].argv = RosdepUpdateCmd
              /\ cmds[1].cwd = workspace_dir
        /\ (ConfigLoaded /\ Terminated /\ ~Interrupted) => cmds # << >>

C6_Witness ==
    /\ ValidEmpty
    /\ installResult = "True"
    /\ Calls("rosdep_update") = {1}
    /\ Terminated

\* C7: given a ros-config.yml that cannot be parsed as YAML or cannot be
\* read as a mapping, the run ends with exit code 1, no installation or
\* build subprocess is invoked, and the SystemExit of read_packages_config
\* does not pass through a handler of main.  (Stated of the runs that
\* entered setup_workspace and were not ended by an uncaught Ctrl-C.)
C7_UnparsableConfigExitsOne ==
    (config.kind \in {"malformed", "notmapping"} /\ ReachedSetup) =>
        /\ cmds = << >>
        /\ installResult = "unset" /\ buildResult = "unset"
        /\ (Happened(Ev("start", "read_packages_config")) /\ ~Interrupted) =>
              /\ ~Logged("ERROR", "Unexpected error")
              /\ ~Logged("INFO", "Operation cancelled by user")
        /\ (Terminated /\ ~Killed) => exitCode = 1

\* The part of C7 that the code keeps: once read_packages_config is reached
\* (prepare.sh exists) on such a file, the process ends there with exit
\* code 1, the error logged, no subprocess invoked before or after, and
\* neither handler of main entered.
C7_ReadPathExitsOne ==
    Unparsable =>
        /\ cmds = << >>
        /\ installResult = "unset" /\ buildResult = "unset"
        /\ ~ConfigLoaded
        /\ (Happened(Ev("start", "read_packages_config")) /\ ~Interrupted) =>
              /\ Terminated
              /\ exitCode = 1
              /\ ConfigErrorLogged
              /\ ~Logged("ERROR", "Unexpected error")
              /\ ~Logged("INFO", "Operation cancelled by user")
        /\ (EnvironmentPassed /\ Terminated /\ ~Killed) => exitCode = 1

C7_ReadPathWitness ==
    /\ config.kind = "malformed"
    /\ Happened(Ev("start", "read_packages_config"))
    /\ Terminated
    /\ exitCode = 1

Recoverable == {"apt_update", "apt_install", "rosdep_update", "rosdep_install"}

\* a failed recoverable command is followed by the next command, or the
\* run stands at the entry of build_ws, about to run it
FailureDoesNotStop ==
    \A i \in DOMAIN cmds :
        (cmds[i].what \in Recoverable /\ Failed(i)) =>
            \/ i < Len(cmds)
            \/ pc = "build_ws"
            \/ Interrupted

\* C8: in every run that passes the environment check and loads the
\* config, a failure of apt update, apt install, rosdep update or rosdep
\* install is only logged and never stops the run: colcon build is invoked
\* exactly once, whichever of those commands failed.  (Stated of the runs
\* on a valid config that no Ctrl-C cut short, once they have ended.)
C8_FailuresDoNotStopTheRun ==
    ((ValidNonEmpty \/ ValidEmpty) /\ ConfigLoaded /\ Terminated /\ ~Interrupted) =>
        Cardinality(Calls("colcon_build")) = 1

\* The part of C8 that the code keeps: a nonzero exit status of one of the
\* four commands is followed by the next command, and a run that ends
\* without interruption and without an exception no step handles has
\* invoked colcon build exactly once, as its last command.
C8_NonzeroExitDoesNotStop ==
    ConfigLoaded =>
        /\ FailureDoesNotStop
        /\ Cardinality(Calls("colcon_build")) <= 1
        /\ (Terminated /\ ~Aborted) =>
              /\ Cardinality(Calls("colcon_build")) = 1
              /\ cmds[Len(cmds)].what = "colcon_build"
              /\ cmds[Len(cmds)].argv = ColconBuildCmd

C8_NonzeroExitWitness ==
    /\ ValidNonEmpty
    /\ \E i \in Calls("apt_update") : Failed(i)
    /\ \E i \in Calls("rosdep_update") : Failed(i)
    /\ Logged("ERROR", "Failed to install official packages")
    /\ Logged("WARNING", "Failed to install some dependencies")
    /\ Cardinality(Calls("colcon_build")) = 1
    /\ Terminated

\* the steps of a run in their order
Rank(what) ==
    CASE what = "check_environment" -> 1
      [] what = "read_packages_config" -> 2
      [] what = "apt_update" -> 3
      [] what = "apt_install" -> 4
      [] what = "rosdep_update" -> 5
      [] what = "rosdep_install" -> 6
      [] what = "colcon_build" -> 7
      [] OTHER -> 0

\* trace[i] is the begin of a step (a command that could not be started
\* counts as begun)
Begins(i) == trace[i].ev \in {"start", "oserror"} /\ Rank(trace[i].what) > 0

BegunBefore(what, j) ==
    \E i \in 1 .. (j - 1) : Begins(i) /\ trace[i].what = what

EndedBefore(what, j) == \E i \in 1 .. (j - 1) : trace[i] = Ev("end", what)

\* C9: the steps of a run occur in the order environment check, config
\* loading, apt update, apt install, rosdep update, rosdep install, colcon
\* build: a step begins only after every step begun before it has ended,
\* only after the steps it depends on, never twice and never before a step
\* that precedes it in that order; and at most one command runs at a time.
C9_StepsInFixedOrder ==
    /\ \A i, j \in DOMAIN trace :
          (i < j /\ Begins(i) /\ Begins(j)) =>
              /\ Rank(trace[i].what) < Rank(trace[j].what)
              /\ \E k \in (i + 1) .. (j - 1) : trace[k] = Ev("end", trace[i].what)
    /\ \A j \in DOMAIN trace :
          Begins(j) =>
              /\ Rank(trace[j].what) > 1 => EndedBefore("check_environment", j)
              /\ Rank(trace[j].what) > 2 => EndedBefore("read_packages_config", j)
              /\ trace[j].what = "apt_install" => EndedBefore("apt_update", j)
              /\ trace[j].what = "rosdep_install" => EndedBefore("rosdep_update", j)
              /\ trace[j].what = "colcon_build" => EndedBefore("rosdep_update", j)
              /\ (trace[j].what = "colcon_build" /\ BegunBefore("rosdep_install", j)) =>
                    EndedBefore("rosdep_install", j)
    /\ \A i \in DOMAIN cmds : cmds[i].state = "running" => i = Len(cmds)
    /\ \A i, j \in DOMAIN cmds : i < j => Rank(cmds[i].what) < Rank(cmds[j].what)

C9_Witness ==
    /\ Terminated
    /\ Len(cmds) = 5
    /\ \A i \in DOMAIN cmds : Succeeded(i)

\* C10: apt install is invoked only directly after apt update exited with
\* status zero, and rosdep install only directly after rosdep update exited
\* with status zero; once the first command of a pair has failed, the
\* second is never invoked in that run.
C10_SecondCommandGated ==
    /\ \A i \in Calls("apt_install") :
          i > 1 /\ cmds[i - 1].what = "apt_update" /\ Succeeded(i - 1)
    /\ \A i \in Calls("rosdep_install") :
          i > 1 /\ cmds[i - 1].what = "rosdep_update" /\ Succeeded(i - 1)
    /\ (\E i \in Calls("apt_update") : ~Succeeded(i) /\ cmds[i].state # "running") =>
          Calls("apt_install") = {}
    /\ (\E i \in Calls("rosdep_update") : ~Succeeded(i) /\ cmds[i].state # "running") =>
          Calls("rosdep_install") = {}

C10_Witness ==
    /\ \E i \in Calls("apt_update") : Failed(i)
    /\ \E i \in Calls("rosdep_update") : Failed(i)
    /\ Calls("apt_install") = {} /\ Calls("rosdep_install") = {}
    /\ Calls("colcon_build") # {}
    /\ Terminated

====
